---- MODULE Spec2Model ----
(***************************************************************************)
(* OlyObd (src/src/main.cpp): an OBD-II polling client on an Arduino UNO.  *)
(* loop() starts a sweep every OBD_REQUEST_INTERVAL ms; a sweep calls the  *)
(* five getters in a fixed order; each getter sends one request frame and  *)
(* waits in readOBDResponse for a matching response for CAN_TIMEOUT ms.    *)
(*                                                                         *)
(* Time is counted in milliseconds.  `now` is the time elapsed since the   *)
(* first state of the behaviour; millis() is the wrapping counter          *)
(* (base + now) % ULONG_MODULUS.  Time passes only in delay(); the         *)
(* instructions in between take less than the clock's resolution.          *)
(***************************************************************************)
EXTENDS Integers, Sequences, FiniteSets, TLC

VARIABLES
    now,              \* milliseconds elapsed since the first state
    base,             \* value of millis() in the first state
    rx,               \* the controller's receive buffer: a frame or NoFrame
    lastRequestTime,  \* main.cpp:45
    currentTime,      \* loop(): local, main.cpp:205
    pc,               \* position of the single thread of control
    idx,              \* which getter of the sweep is running (1..5), 0 before the first sweep
    startTime,        \* readOBDResponse(): local, main.cpp:67
    response,         \* the getter's local byte response[5]
    ok,               \* what readOBDResponse returned
    val,              \* what the getter returned
    txLog,            \* frames handed to CAN.sendMsgBuf since the sweep began
    reported,         \* PIDs loop() has printed a line for since the sweep began
    lastFailed,       \* whether the last printed line was "READ FAILED"
    sawFrame,         \* this query: some poll found a frame
    missed,           \* this query: some poll found no frame
    startNow,         \* `now` when startTime was recorded
    sweepNow,         \* `now` when the running or last sweep began (before the first: at boot)
    sweeps,           \* number of sweeps begun in this behaviour
    rxFresh           \* the frame in rx arrived after the latest request was sent, inside its window

vars == <<now, base, rx, lastRequestTime, currentTime, pc, idx, startTime,
          response, ok, val, txLog, reported, lastFailed, sawFrame, missed,
          startNow, sweepNow, sweeps, rxFresh>>

----------------------------------------------------------------------------
(* Program constants *)

PID_ENGINE_RPM        == 12    \* 0x0C
PID_VEHICLE_SPEED     == 13    \* 0x0D
PID_COOLANT_TEMP      == 5     \* 0x05
PID_THROTTLE_POSITION == 17    \* 0x11
PID_ENGINE_LOAD       == 4     \* 0x04
OBD_REQUEST_ID        == 2015  \* 0x7DF
OBD_RESPONSE_ID       == 2024  \* 0x7E8
OBD_RESPONSE_ID_LAST  == 2031  \* 0x7EF
MODE_01_RESPONSE      == 65    \* 0x41
OBD_REQUEST_INTERVAL  == 1000
CAN_TIMEOUT           == 100
POLL_DELAY            == 5
LOOP_DELAY            == 10
SETUP_DELAY           == 1000
RESPONSE_LEN          == 5
CAN_MAX_LEN           == 8
INT_MAX               == 32767        \* int is 16 bits wide on the AVR
COOLANT_FAILED        == -999
READ_FAILED           == -1

(* Bounds of the model *)

MaxTime  == 1150   \* no delay() ends later than this many ms after the first state
WrapLead == 250    \* the late initial state lies this many ms before millis() wraps
LateGap  == 900    \* ... and this many ms after the previous sweep began

\* unsigned long counts modulo 2^32, more than TLC's integers hold: the model's
\* clock counts modulo 2^30, which like 2^32 exceeds every interval measured
ULONG_MODULUS == 1073741824

----------------------------------------------------------------------------
(* Arithmetic of the target *)

\* the difference taken in unbounded integers, without the wrap
USubSigned(a, b) == a - b

\* unsigned long arithmetic: millis() - startTime, currentTime - lastRequestTime
USub(a, b) == (a - b + ULONG_MODULUS) % ULONG_MODULUS

\* millis()
Millis == (base + now) % ULONG_MODULUS

\* C's integer division truncates toward zero
TruncDiv(a, b) == IF a >= 0 THEN a \div b ELSE -((-a) \div b)

\* a value reduced to the 16-bit two's complement int
WrapInt(x) == ((x + INT_MAX + 1) % (2 * (INT_MAX + 1))) - (INT_MAX + 1)

----------------------------------------------------------------------------
(* Frames *)

NoFrame == [id |-> 0, len |-> 0, data |-> <<>>]

\* the request with the PID one byte late
RequestFrameShifted(pid) ==
    [id |-> OBD_REQUEST_ID, len |-> CAN_MAX_LEN, data |-> <<2, 1, 0, pid, 0, 0, 0, 0>>]

\* byte request[8] = {0x02, 0x01, pid, 0, 0, 0, 0, 0}, sent to OBD_REQUEST_ID
RequestFrame(pid) ==
    [id |-> OBD_REQUEST_ID, len |-> CAN_MAX_LEN, data |-> <<2, 1, pid, 0, 0, 0, 0, 0>>]

PidOrder == <<PID_ENGINE_RPM, PID_VEHICLE_SPEED, PID_COOLANT_TEMP,
              PID_THROTTLE_POSITION, PID_ENGINE_LOAD>>

CurPid == PidOrder[IF idx = 0 THEN 1 ELSE idx]

\* The frame CAN.sendMsgBuf and the controller exchange: identifier, declared
\* length, and `len` payload bytes.
Resp(id, b0, mode, pid, d) ==
    [id |-> id, len |-> CAN_MAX_LEN, data |-> <<b0, mode, pid, d[1], d[2], 0, 0, 0>>]

Short(id, bytes) == [id |-> id, len |-> Len(bytes), data |-> bytes]

\* Data bytes A, B an ECU answers with, per PID
DataSamples(pid) ==
    CASE pid = PID_ENGINE_RPM        -> {<<26, 248>>, <<255, 252>>}
      [] pid = PID_VEHICLE_SPEED     -> {<<60, 0>>}
      [] pid = PID_COOLANT_TEMP      -> {<<90, 0>>}
      [] pid = PID_THROTTLE_POSITION -> {<<128, 0>>}
      [] pid = PID_ENGINE_LOAD       -> {<<255, 0>>}

OtherPid(pid) == IF pid = PID_ENGINE_RPM THEN PID_VEHICLE_SPEED ELSE PID_ENGINE_RPM

\* What the bus may deliver after a request for `pid`: the answers of an ECU,
\* and frames that differ from an answer in one field, or are cut short.
Traffic(pid) ==
    LET d == CHOOSE x \in DataSamples(pid) : TRUE IN
       { Resp(OBD_RESPONSE_ID, 2, MODE_01_RESPONSE, pid, x) : x \in DataSamples(pid) }
    \cup { Resp(OBD_RESPONSE_ID_LAST, 2, MODE_01_RESPONSE, pid, d),
           Resp(OBD_RESPONSE_ID - 1, 2, MODE_01_RESPONSE, pid, d),
           Resp(OBD_RESPONSE_ID_LAST + 1, 2, MODE_01_RESPONSE, pid, d),
           Resp(OBD_RESPONSE_ID, 2, MODE_01_RESPONSE - 1, pid, d),
           Resp(OBD_RESPONSE_ID, 2, MODE_01_RESPONSE + 1, pid, d),
           Resp(OBD_RESPONSE_ID, 2, MODE_01_RESPONSE, OtherPid(pid), d),
           Short(OBD_RESPONSE_ID, <<1>>) }

\* byte buf[8] is declared without an initializer (main.cpp:72): before
\* readMsgBuf it holds whatever the stack slot held, for instance zeros or the
\* bytes of an earlier answer to the same PID.
Uninit(pid) ==
    { <<0, 0, 0, 0, 0, 0, 0, 0>> }
    \cup { Resp(OBD_RESPONSE_ID, 2, MODE_01_RESPONSE, pid, x).data : x \in DataSamples(pid) }

\* CAN.readMsgBuf(&len, buf) writes the `len` bytes of the frame into buf and
\* leaves the rest of buf as it was.
ReadMsgBuf(f, stale) ==
    [i \in 1..CAN_MAX_LEN |-> IF i <= f.len THEN f.data[i] ELSE stale[i]]

\* main.cpp:79 and :84 (buf[1], buf[2] are the 2nd and 3rd element)
IsOBDResponse(canId, buf, pid) ==
    /\ canId >= OBD_RESPONSE_ID /\ canId <= OBD_RESPONSE_ID_LAST
    /\ buf[2] = MODE_01_RESPONSE /\ buf[3] = pid

\* main.cpp:86-88: response[i] = buf[3 + i]
CopyResponse(buf) == [i \in 1..RESPONSE_LEN |-> buf[3 + i]]

\* the window test with the operands of the subtraction exchanged
InWindowSwapped(t, start) == USub(start, t) < CAN_TIMEOUT

\* while (millis() - startTime < CAN_TIMEOUT)
InWindow(t, start) == USub(t, start) < CAN_TIMEOUT

\* the interval test with > for >=
IntervalElapsedStrict(t, last) == USub(t, last) > OBD_REQUEST_INTERVAL

\* if (currentTime - lastRequestTime >= OBD_REQUEST_INTERVAL)
IntervalElapsed(t, last) == USub(t, last) >= OBD_REQUEST_INTERVAL

----------------------------------------------------------------------------
(* Decoders: the value a getter returns after a successful exchange.  The   *)
(* result is a set: where the C expression overflows int the behaviour is   *)
(* undefined, and the set holds the values a build can produce.             *)

\* int rpm = ((response[0] * 256) + response[1]) / 4;  (main.cpp:108)
\* response[0] * 256 exceeds INT_MAX for response[0] >= 128: the build either
\* wraps the 16-bit int and divides the negative value, or, having concluded
\* that the dividend is non-negative, shifts it and yields the exact quotient.
getEngineRPM(r) ==
    LET x == (r[1] * 256) + r[2] IN
    IF x <= INT_MAX THEN { TruncDiv(x, 4) }
    ELSE { TruncDiv(WrapInt(x), 4), TruncDiv(x, 4) }

\* return response[0];  (main.cpp:124)
getVehicleSpeed(r) == { r[1] }

\* return response[0] - 40;  (main.cpp:139)
getCoolantTemp(r) == { r[1] - 40 }

\* the percentage rounded to the nearest integer instead of truncated
getThrottleRounded(r) == { TruncDiv((r[1] * 100) + 127, 255) }

\* return (response[0] * 100) / 255;  (main.cpp:154, :169)
getThrottlePosition(r) == { TruncDiv(r[1] * 100, 255) }
getEngineLoad(r)       == { TruncDiv(r[1] * 100, 255) }

Decode(i, r) ==
    CASE i = 1 -> getEngineRPM(r)
      [] i = 2 -> getVehicleSpeed(r)
      [] i = 3 -> getCoolantTemp(r)
      [] i = 4 -> getThrottlePosition(r)
      [] i = 5 -> getEngineLoad(r)

\* the value a getter returns when readOBDResponse returned false
Sentinel(i) == IF i = 3 THEN COOLANT_FAILED ELSE READ_FAILED

\* loop(): the test that chooses between the value line and "READ FAILED"
PrintsFailed(i, v) == IF i = 3 THEN ~(v /= COOLANT_FAILED) ELSE ~(v >= 0)

----------------------------------------------------------------------------
(* Initial states *)

\* byte response[5] before readOBDResponse has written it (it is read only
\* after readOBDResponse returned true, which writes all five bytes)
NoResponse == [i \in 1..RESPONSE_LEN |-> 0]

AllRequests == [i \in 1..RESPONSE_LEN |-> RequestFrame(PidOrder[i])]

\* setup() has returned: millis() is SETUP_DELAY, no sweep has run yet
InitBoot ==
    /\ base = SETUP_DELAY
    /\ lastRequestTime = 0
    /\ idx = 0
    /\ txLog = <<>> /\ reported = <<>>
    /\ lastFailed = FALSE
    /\ sweepNow = -SETUP_DELAY
    /\ sweeps = 0

\* loop() is entered WrapLead ms before millis() wraps; the previous sweep
\* began LateGap ms ago and all of its five queries timed out
InitLate ==
    /\ base = ULONG_MODULUS - WrapLead
    /\ lastRequestTime = base - LateGap
    /\ idx = 5
    /\ txLog = AllRequests /\ reported = PidOrder
    /\ lastFailed = TRUE
    /\ sweepNow = -LateGap
    /\ sweeps = 1

Init ==
    /\ now = 0
    /\ rx = NoFrame
    /\ currentTime = 0
    /\ pc = "loop"
    /\ response = NoResponse
    /\ val = 0
    /\ startTime = 0 /\ startNow = 0
    /\ missed = FALSE
    /\ ok = FALSE
    /\ sawFrame = FALSE
    /\ rxFresh = FALSE
    /\ (InitBoot \/ InitLate)

----------------------------------------------------------------------------
(* The bus *)

\* A frame reaches the controller's receive buffer (a full buffer keeps the
\* frame it holds).
Arrive ==
    /\ rx = NoFrame
    /\ \E f \in Traffic(CurPid) : rx' = f
    /\ rxFresh' = (pc = "enter" \/ (pc \in {"wait", "idle"} /\ now - startNow < CAN_TIMEOUT))
    /\ UNCHANGED <<now, base, lastRequestTime, currentTime, pc, idx, startTime,
                   response, ok, val, txLog, reported, lastFailed, sawFrame,
                   missed, startNow, sweepNow, sweeps>>

----------------------------------------------------------------------------
(* loop() *)

\* main.cpp:205-211: read the clock; start a sweep when the interval elapsed
LoopTop ==
    /\ pc = "loop"
    /\ currentTime' = Millis
    /\ IF IntervalElapsed(Millis, lastRequestTime)
       THEN /\ lastRequestTime' = Millis
            /\ idx' = 1
            /\ txLog' = <<>>
            /\ reported' = <<>>
            /\ sweepNow' = now
            /\ sweeps' = sweeps + 1
            /\ pc' = "send"
       ELSE /\ pc' = "rest"
            /\ UNCHANGED <<lastRequestTime, idx, txLog, reported, sweepNow, sweeps>>
    /\ UNCHANGED <<now, base, rx, startTime, response, ok, val, lastFailed,
                   sawFrame, missed, startNow, rxFresh>>

\* a getter's first statement: sendOBDRequest(pid), main.cpp:51-58; its local
\* response[5] comes into being
sendOBDRequest ==
    /\ pc = "send"
    /\ txLog' = Append(txLog, RequestFrame(CurPid))
    /\ response' = NoResponse
    /\ ok' = FALSE
    /\ pc' = "enter"
    /\ rxFresh' = FALSE
    /\ UNCHANGED <<now, base, rx, lastRequestTime, currentTime, idx, startTime,
                   val, reported, lastFailed, sawFrame, missed, startNow,
                   sweepNow, sweeps>>

\* readOBDResponse is entered: unsigned long startTime = millis(), main.cpp:67
ReadEnter ==
    /\ pc = "enter"
    /\ startTime' = Millis
    /\ startNow' = now
    /\ sawFrame' = FALSE
    /\ missed' = FALSE
    /\ pc' = "wait"
    /\ UNCHANGED <<now, base, rx, lastRequestTime, currentTime, idx, response,
                   ok, val, txLog, reported, lastFailed, sweepNow, sweeps, rxFresh>>

\* readOBDResponse with the window started afresh after a dropped frame
PollFrameRearm ==
    /\ pc = "wait"
    /\ InWindow(Millis, startTime)
    /\ rx /= NoFrame
    /\ \E stale \in Uninit(CurPid) :
         LET buf == ReadMsgBuf(rx, stale) IN
           IF IsOBDResponse(rx.id, buf, CurPid)
           THEN /\ response' = CopyResponse(buf)
                /\ ok' = TRUE
                /\ pc' = "ret"
                /\ UNCHANGED startTime
           ELSE /\ pc' = "idle"
                /\ startTime' = Millis
                /\ UNCHANGED <<response, ok>>
    /\ rx' = NoFrame
    /\ sawFrame' = TRUE
    /\ rxFresh' = FALSE
    /\ UNCHANGED <<now, base, lastRequestTime, currentTime, idx, val,
                   txLog, reported, lastFailed, missed, startNow, sweepNow, sweeps>>

\* main.cpp:69-92: the window is open and a frame is available; it is read,
\* and either returned (true) or dropped
PollFrame ==
    /\ pc = "wait"
    /\ InWindow(Millis, startTime)
    /\ rx /= NoFrame
    /\ \E stale \in Uninit(CurPid) :
         LET buf == ReadMsgBuf(rx, stale) IN
           IF IsOBDResponse(rx.id, buf, CurPid)
           THEN /\ response' = CopyResponse(buf)
                /\ ok' = TRUE
                /\ pc' = "ret"
           ELSE /\ pc' = "idle"
                /\ UNCHANGED <<response, ok>>
    /\ rx' = NoFrame
    /\ sawFrame' = TRUE
    /\ rxFresh' = FALSE
    /\ UNCHANGED <<now, base, lastRequestTime, currentTime, idx, startTime, val,
                   txLog, reported, lastFailed, missed, startNow, sweepNow, sweeps>>

\* main.cpp:69-70: the window is open and CAN.checkReceive() reports no frame
PollEmpty ==
    /\ pc = "wait"
    /\ InWindow(Millis, startTime)
    /\ rx = NoFrame
    /\ missed' = TRUE
    /\ pc' = "idle"
    /\ UNCHANGED <<now, base, rx, lastRequestTime, currentTime, idx, startTime,
                   response, ok, val, txLog, reported, lastFailed, sawFrame,
                   startNow, sweepNow, sweeps, rxFresh>>

\* main.cpp:93: delay(5) at the end of every pass of the loop
PollDelay ==
    /\ pc = "idle"
    /\ now + POLL_DELAY <= MaxTime
    /\ now' = now + POLL_DELAY
    /\ pc' = "wait"
    /\ UNCHANGED <<base, rx, lastRequestTime, currentTime, idx, startTime,
                   response, ok, val, txLog, reported, lastFailed, sawFrame,
                   missed, startNow, sweepNow, sweeps, rxFresh>>

\* main.cpp:69, 95: the window has closed; return false
TimeOut ==
    /\ pc = "wait"
    /\ ~InWindow(Millis, startTime)
    /\ ok' = FALSE
    /\ pc' = "ret"
    /\ UNCHANGED <<now, base, rx, lastRequestTime, currentTime, idx, startTime,
                   response, val, txLog, reported, lastFailed, sawFrame, missed,
                   startNow, sweepNow, sweeps, rxFresh>>

\* readOBDResponse has returned and its locals are gone; the getter returns
\* the decoded value, or its sentinel
GetterReturn ==
    /\ pc = "ret"
    /\ val' \in (IF ok THEN Decode(idx, response) ELSE { Sentinel(idx) })
    /\ startTime' = 0
    /\ startNow' = 0
    /\ sawFrame' = FALSE
    /\ missed' = FALSE
    /\ pc' = "report"
    /\ UNCHANGED <<now, base, rx, lastRequestTime, currentTime, idx, response,
                   ok, txLog, reported, lastFailed, sweepNow, sweeps, rxFresh>>

\* loop() with the clock written when the sweep has completed
ReportStamps ==
    /\ pc = "report"
    /\ lastFailed' = PrintsFailed(idx, val)
    /\ reported' = Append(reported, CurPid)
    /\ response' = NoResponse
    /\ val' = 0
    /\ IF idx < Len(PidOrder)
       THEN idx' = idx + 1 /\ pc' = "send" /\ UNCHANGED lastRequestTime
       ELSE idx' = idx /\ pc' = "rest" /\ lastRequestTime' = Millis
    /\ UNCHANGED <<now, base, rx, currentTime, startTime, ok,
                   txLog, sawFrame, missed, startNow, sweepNow, sweeps, rxFresh>>

\* loop() with a retry: a PID that failed is queried again before the next
ReportRetry ==
    /\ pc = "report"
    /\ lastFailed' = PrintsFailed(idx, val)
    /\ reported' = Append(reported, CurPid)
    /\ response' = NoResponse
    /\ val' = 0
    /\ IF PrintsFailed(idx, val) /\ Len(txLog) < Len(PidOrder)
       THEN idx' = idx /\ pc' = "send"
       ELSE IF idx < Len(PidOrder)
            THEN idx' = idx + 1 /\ pc' = "send"
            ELSE idx' = idx /\ pc' = "rest"
    /\ UNCHANGED <<now, base, rx, lastRequestTime, currentTime, startTime, ok,
                   txLog, sawFrame, missed, startNow, sweepNow, sweeps, rxFresh>>

\* loop() giving the sweep up at the first failed read
ReportAbort ==
    /\ pc = "report"
    /\ lastFailed' = PrintsFailed(idx, val)
    /\ reported' = Append(reported, CurPid)
    /\ response' = NoResponse
    /\ val' = 0
    /\ IF idx < Len(PidOrder) /\ ~PrintsFailed(idx, val)
       THEN idx' = idx + 1 /\ pc' = "send"
       ELSE idx' = idx /\ pc' = "rest"
    /\ UNCHANGED <<now, base, rx, lastRequestTime, currentTime, startTime, ok,
                   txLog, sawFrame, missed, startNow, sweepNow, sweeps, rxFresh>>

\* loop() prints the line for this PID and goes on to the next getter, or
\* leaves the if-block after the fifth; the getter's locals are gone
Report ==
    /\ pc = "report"
    /\ lastFailed' = PrintsFailed(idx, val)
    /\ reported' = Append(reported, CurPid)
    /\ response' = NoResponse
    /\ val' = 0
    /\ IF idx < Len(PidOrder)
       THEN idx' = idx + 1 /\ pc' = "send"
       ELSE idx' = idx /\ pc' = "rest"
    /\ UNCHANGED <<now, base, rx, lastRequestTime, currentTime, startTime, ok,
                   txLog, sawFrame, missed, startNow, sweepNow, sweeps, rxFresh>>

\* main.cpp:267: delay(10) at the end of loop()
LoopDelay ==
    /\ pc = "rest"
    /\ now + LOOP_DELAY <= MaxTime
    /\ now' = now + LOOP_DELAY
    /\ pc' = "loop"
    /\ UNCHANGED <<base, rx, lastRequestTime, currentTime, idx, startTime,
                   response, ok, val, txLog, reported, lastFailed, sawFrame,
                   missed, startNow, sweepNow, sweeps, rxFresh>>

\* bool readOBDResponse(byte pid, byte* response), step by step
readOBDResponse ==
    \/ ReadEnter
    \/ PollFrame
    \/ PollEmpty
    \/ PollDelay
    \/ TimeOut

\* void loop(), step by step; the getters it calls run in between
loop ==
    \/ LoopTop
    \/ Report
    \/ LoopDelay

Next ==
    \/ Arrive
    \/ loop
    \/ sendOBDRequest
    \/ readOBDResponse
    \/ GetterReturn

Spec == Init /\ [][Next]_vars

(***************************************************************************)
(* The program running for ever.  Every test the program makes on the      *)
(* clock is a difference of two readings, so moving the origin of time     *)
(* changes nothing it can observe: LoopTopLive is LoopTop with the origin  *)
(* moved to the start of each sweep (millis() reads `base` again), which   *)
(* keeps `now` below MaxTime and the state set finite.  The bus delivers   *)
(* either an answer to the PID being queried or an answer to another PID,  *)
(* or nothing.  The processor never stops: the program's next step is      *)
(* always taken (weak fairness); nothing is assumed of the bus.            *)
(***************************************************************************)
TrafficLive(pid) ==
    LET d == CHOOSE x \in DataSamples(pid) : TRUE IN
    { Resp(OBD_RESPONSE_ID, 2, MODE_01_RESPONSE, pid, d),
      Resp(OBD_RESPONSE_ID, 2, MODE_01_RESPONSE, OtherPid(pid), d) }

ArriveLive ==
    /\ rx = NoFrame
    /\ \E f \in TrafficLive(CurPid) : rx' = f
    /\ rxFresh' = (pc = "enter" \/ (pc \in {"wait", "idle"} /\ now - startNow < CAN_TIMEOUT))
    /\ UNCHANGED <<now, base, lastRequestTime, currentTime, pc, idx, startTime,
                   response, ok, val, txLog, reported, lastFailed, sawFrame,
                   missed, startNow, sweepNow, sweeps>>

LoopTopLive ==
    /\ pc = "loop"
    /\ IF IntervalElapsed(Millis, lastRequestTime)
       THEN /\ now' = 0
            /\ currentTime' = base
            /\ lastRequestTime' = base
            /\ idx' = 1
            /\ txLog' = <<>>
            /\ reported' = <<>>
            /\ sweepNow' = 0
            /\ sweeps' = IF sweeps < 2 THEN sweeps + 1 ELSE sweeps
            /\ pc' = "send"
       ELSE /\ currentTime' = Millis
            /\ pc' = "rest"
            /\ UNCHANGED <<now, lastRequestTime, idx, txLog, reported, sweepNow, sweeps>>
    /\ UNCHANGED <<base, rx, startTime, response, ok, val, lastFailed,
                   sawFrame, missed, startNow, rxFresh>>

ProgramLive ==
    \/ LoopTopLive
    \/ Report
    \/ LoopDelay
    \/ sendOBDRequest
    \/ readOBDResponse
    \/ GetterReturn

NextLive ==
    \/ ArriveLive
    \/ ProgramLive

SpecLive == Init /\ [][NextLive]_vars /\ WF_vars(ProgramLive)

(***************************************************************************)
(* The single-byte decoders on every byte value: readOBDResponse has just  *)
(* returned true to the getter of PID number idx (2..5) in the first sweep *)
(* after boot, with an arbitrary first data byte, and the getter returns.  *)
(***************************************************************************)
Byte == 0..255

InitDecode ==
    /\ now = 0 /\ base = SETUP_DELAY
    /\ rx = NoFrame
    /\ lastRequestTime = SETUP_DELAY /\ currentTime = SETUP_DELAY
    /\ pc = "ret"
    /\ idx \in 2..Len(PidOrder)
    /\ startTime = SETUP_DELAY /\ startNow = 0
    /\ \E b \in Byte : response = [NoResponse EXCEPT ![1] = b]
    /\ ok = TRUE
    /\ val = 0
    /\ txLog = SubSeq(AllRequests, 1, idx)
    /\ reported = SubSeq(PidOrder, 1, idx - 1)
    /\ lastFailed = FALSE
    /\ sawFrame = TRUE /\ missed = FALSE
    /\ sweepNow = 0 /\ sweeps = 1
    /\ rxFresh = FALSE

SpecDecode == InitDecode /\ [][GetterReturn]_vars

----------------------------------------------------------------------------
(* Properties *)

\* the states in which readOBDResponse is running or has just returned
InExchange == pc \in {"wait", "idle", "ret"}

\* milliseconds since readOBDResponse recorded its start time
Elapsed == now - startNow

\* C1: Timeout bound of one exchange.  When no poll of the query found a frame,
\* readOBDResponse returns false no earlier than CAN_TIMEOUT ms after the start
\* time it recorded and no later than CAN_TIMEOUT plus one idle interval.
C1_TimeoutBound ==
    (pc = "ret" /\ ~ok /\ ~sawFrame) =>
        /\ Elapsed >= CAN_TIMEOUT
        /\ Elapsed <= CAN_TIMEOUT + POLL_DELAY

\* a query has timed out and every one of its polls found the buffer empty
C1_Witness == pc = "ret" /\ ~ok /\ ~sawFrame /\ missed

\* the response filter as the design states it: the identifier lies in
\* 0x7E8..0x7EF and the frame carries payload bytes 1 and 2, 0x41 and the PID
FrameMatches(f, pid) ==
    /\ f.id >= OBD_RESPONSE_ID /\ f.id <= OBD_RESPONSE_ID_LAST
    /\ f.len >= 3
    /\ f.data[2] = MODE_01_RESPONSE
    /\ f.data[3] = pid

\* readOBDResponse takes the frame in the receive buffer in this step
ReadsFrame == pc = "wait" /\ rx /= NoFrame /\ rx' = NoFrame

\* C2: Response filtering.  Whenever readOBDResponse reads a frame, it returns
\* true on that frame if and only if the frame's identifier is in 0x7E8..0x7EF,
\* its payload byte 1 is 0x41 and its payload byte 2 is the queried PID; every
\* other frame is dropped and the wait goes on.
C2_Filtering ==
    [][ReadsFrame =>
          /\ (pc' = "ret" /\ ok') <=> FrameMatches(rx, CurPid)
          /\ ~FrameMatches(rx, CurPid) => (pc' = "idle" /\ UNCHANGED <<ok, response, startTime>>)
       ]_vars

\* C3: Sweep determinism.  The requests of a sweep go out for RPM, Speed,
\* Coolant, Throttle, Load in this order, one each, whatever the earlier
\* queries returned; a request goes out only when every earlier query of the
\* sweep has returned and been reported, so at most one query is in progress.
C3_SweepOrder ==
    /\ Len(txLog) <= Len(PidOrder)
    /\ \A i \in 1..Len(txLog) : txLog[i].data[3] = PidOrder[i]
    /\ Len(txLog) - Len(reported) \in {0, 1}
    /\ (pc = "send") => (Len(txLog) = Len(reported) /\ idx = Len(txLog) + 1)
    /\ (pc \in {"enter", "wait", "idle", "ret", "report"}) =>
           (Len(txLog) = Len(reported) + 1 /\ idx = Len(txLog))
    /\ (pc \in {"rest", "loop"} /\ sweeps > 0) => Len(txLog) = Len(PidOrder)

\* the fourth query of a sweep begun in this behaviour failed, and the request
\* of the fifth has gone out all the same
C3_Witness ==
    /\ sweepNow >= 0 /\ pc = "enter" /\ idx = 5 /\ lastFailed
    /\ txLog[5].data[3] = PID_ENGINE_LOAD

\* C4: RPM decoding.  After a successful exchange for PID 0x0C with data bytes
\* byte0, byte1, getEngineRPM returns ((byte0 * 256) + byte1) / 4 truncated,
\* a value in 0..16383.
C4_RpmDecoding ==
    (pc = "report" /\ idx = 1 /\ ok) =>
        /\ val = ((response[1] * 256) + response[2]) \div 4
        /\ val \in 0..16383

\* C5: Sentinel disjointness.  The value a getter returns after a successful
\* exchange is never that getter's failure sentinel (-1, -999 for coolant).
C5_SentinelDisjoint ==
    (pc = "report" /\ ok) =>
        val /= (IF CurPid = PID_COOLANT_TEMP THEN -999 ELSE -1)

\* C6: Faithful reporting.  loop() prints READ FAILED for a PID if and only if
\* that PID's exchange timed out, and prints one line per PID and sweep, in
\* the order of the queries.
C6_FaithfulReport ==
    /\ (pc \in {"send", "rest"} /\ Len(reported) >= 1) => (lastFailed <=> ~ok)
    /\ Len(reported) <= Len(PidOrder)
    /\ \A i \in 1..Len(reported) : reported[i] = PidOrder[i]

\* C7: Non-matching traffic does not extend the wait.  Whatever frames arrive,
\* readOBDResponse keeps the start time it recorded on entry and has returned
\* by CAN_TIMEOUT plus one idle interval after it.
C7_NoExtension ==
    InExchange =>
        /\ startTime = (base + startNow) % ULONG_MODULUS
        /\ Elapsed <= CAN_TIMEOUT + POLL_DELAY

\* a query has timed out although every one of its polls found a frame
C7_Witness == pc = "ret" /\ ~ok /\ sawFrame /\ ~missed

\* C8: Request framing and single transmission.  Every query transmits one
\* frame, before its first poll: identifier 0x7DF, payload 02 01 pid 00 00 00
\* 00 00.  Nothing more is transmitted during the wait or after a timeout, so
\* a sweep transmits five frames.
C8_RequestFraming ==
    /\ \A i \in 1..Len(txLog) :
          /\ txLog[i].id = 2015
          /\ txLog[i].len = 8
          /\ txLog[i].data = <<2, 1, PidOrder[i], 0, 0, 0, 0, 0>>
    /\ (pc \in {"enter", "wait", "idle", "ret", "report"}) => Len(txLog) = idx
    /\ (pc = "send") => Len(txLog) = idx - 1
    /\ (pc \in {"rest", "loop"} /\ sweeps > 0) => Len(txLog) = 5

\* the fifth query of a sweep has timed out: five frames were transmitted
C8_Witness == pc = "ret" /\ ~ok /\ idx = 5 /\ Len(txLog) = 5 /\ sweepNow >= 0

\* the scheduler is Sweeping from the start of a sweep to its fifth report
Sweeping == pc \in {"send", "enter", "wait", "idle", "ret", "report"}

\* C9: Sweep period.  loop() starts a sweep exactly when the time it reads is
\* at least OBD_REQUEST_INTERVAL ms after the start of the previous sweep, so
\* consecutive sweeps start at least that far apart; the sweep ends, and the
\* scheduler is Idle again, after the fifth query and only then.
C9_SweepPeriod ==
    [][/\ (pc = "loop" /\ pc' /= "loop" /\ sweeps > 0) =>
             ((pc' = "send") <=> (now - sweepNow >= OBD_REQUEST_INTERVAL))
       /\ (sweeps' > sweeps /\ sweeps > 0) =>
             (sweepNow' = now /\ sweepNow' - sweepNow >= OBD_REQUEST_INTERVAL)
       /\ (Sweeping /\ ~Sweeping') => (pc = "report" /\ idx = 5 /\ pc' = "rest")
       /\ (pc = "report" /\ idx = 5 /\ pc' /= pc) => pc' = "rest"
      ]_vars

\* a sweep that followed another one has run its five queries and ended
C9_Witness == sweeps = 2 /\ pc = "rest" /\ Len(reported) = 5

\* C10 as stated: lastRequestTime is written only once the sweep it stamps has
\* completed its five queries.
C10_WrittenAfterSweep ==
    [][lastRequestTime' /= lastRequestTime => Len(reported') = Len(PidOrder)]_vars

\* C10, amended: lastRequestTime is written only by loop(), in the step that
\* starts a sweep and before the sweep's first request; its value is the time
\* read at the start of the running or last sweep; no exchange or decoder
\* writes it, and it is unchanged while the scheduler is Idle.
C10_PollingClock ==
    [][/\ lastRequestTime' /= lastRequestTime =>
             (pc = "loop" /\ pc' = "send" /\ idx' = 1 /\ txLog' = <<>>)
       /\ sweeps' > sweeps => lastRequestTime' = Millis
       /\ sweeps' > 0 => lastRequestTime' = (base + sweepNow') % ULONG_MODULUS
       /\ (~Sweeping /\ ~Sweeping') => lastRequestTime' = lastRequestTime
      ]_vars

\* the clock holds the start time of a sweep whose first request is yet to go
C10_Witness ==
    pc = "send" /\ idx = 1 /\ sweeps = 2 /\ lastRequestTime = Millis /\ reported = <<>>

\* C11: Verbatim data extraction.  When readOBDResponse returns true, the frame
\* it read in that step is a matching frame, the five bytes delivered are that
\* frame's payload bytes 3..7, and the call reads no further frame; so the
\* frame 7E8: 02 41 0D 3C 00 00 00 00 answers PID 0x0D with byte0 = 0x3C.
C11_VerbatimData ==
    [][/\ (ReadsFrame /\ pc' = "ret") =>
             /\ FrameMatches(rx, CurPid)
             /\ response' = [i \in 1..5 |-> rx.data[3 + i]]
       /\ (pc = "ret") => (rx' = rx \/ rx = NoFrame)
       /\ (ReadsFrame /\ CurPid = 13 /\ rx.id = 2024 /\ rx.len = 8
             /\ rx.data = <<2, 65, 13, 60, 0, 0, 0, 0>>) =>
             (pc' = "ret" /\ ok' /\ response'[1] = 60)
      ]_vars

\* C13: Malformed (short) frames.  A frame whose declared length is shorter
\* than the bytes the filter looks at is treated as non-matching: it is
\* dropped, the wait goes on, and it never produces success.
C13_ShortFrames ==
    [][(ReadsFrame /\ rx.len < 3) =>
          (pc' = "idle" /\ ~ok' /\ UNCHANGED response)]_vars

\* C14: Sweep idempotence.  What a poll returns is decided by the frame the
\* transport delivers and the PID queried, and by nothing an earlier call
\* left behind: with the same frame, any two contents of the stack slot of
\* buf lead to the same verdict and the same five bytes.
C14_Idempotence ==
    (pc = "wait" /\ rx /= NoFrame) =>
        \A s1, s2 \in Uninit(CurPid) :
            LET b1 == ReadMsgBuf(rx, s1)
                b2 == ReadMsgBuf(rx, s2)
            IN  /\ IsOBDResponse(rx.id, b1, CurPid) <=> IsOBDResponse(rx.id, b2, CurPid)
                /\ IsOBDResponse(rx.id, b1, CurPid) => CopyResponse(b1) = CopyResponse(b2)

\* C15: Idle only on an empty poll.  The 5 ms idle follows only a poll that
\* found no frame: a poll that read a frame, matching or not, is never
\* followed by the idle, and a dropped frame leads straight to the next poll.
C15_IdleOnlyWhenEmpty ==
    [][ReadsFrame => (pc' /= "idle" /\ (pc' /= "ret" => pc' = "wait"))]_vars

\* C12: Single-byte decoders.  For every data byte b in 0..255 a successful
\* query returns b for the speed, b - 40 (between -40 and 215) for the coolant
\* temperature, and for throttle and load the quotient of b * 100 by 255
\* truncated toward zero, which lies in 0..100 and is 100 only for b = 255;
\* 0x3C gives 60 km/h, 0x5A gives 50 degrees, 0x80 gives 50 and 0xFF 100.
C12_SingleByteDecoders ==
    (pc = "report" /\ ok /\ idx \in 2..5) =>
        LET b == response[1] IN
        /\ idx = 2 => val = b
        /\ idx = 3 => (val + 40 = b /\ val \in -40..215)
        /\ idx \in {4, 5} =>
              /\ val \in 0..100
              /\ val * 255 <= b * 100 /\ b * 100 < (val + 1) * 255
              /\ val = 100 <=> b = 255
        /\ (idx = 2 /\ b = 60) => val = 60
        /\ (idx = 3 /\ b = 90) => val = 50
        /\ (idx = 4 /\ b = 128) => val = 50
        /\ (idx = 5 /\ b = 255) => val = 100

C12_Witness ==
    /\ pc = "report" /\ ok /\ idx = 4
    /\ response[1] = 128 /\ val = 50

\* C19: Clock wrap-around.  The two elapsed-time tests, computed on the
\* wrapping counter, agree with the time that has really passed: the window
\* test of readOBDResponse holds exactly while less than 100 ms have passed
\* since the call recorded its start, and the interval test of loop() holds
\* exactly when at least 1000 ms have passed since the reference it compares
\* with was taken, whether or not millis() wrapped in between.
C19_ClockWrap ==
    /\ pc = "wait" =>
          (InWindow(Millis, startTime) <=> Elapsed < CAN_TIMEOUT)
    /\ pc = "loop" =>
          (IntervalElapsed(Millis, lastRequestTime) <=>
              now - sweepNow >= OBD_REQUEST_INTERVAL)

C19_Witness ==
    /\ pc = "wait"
    /\ Millis < startTime
    /\ Elapsed >= CAN_TIMEOUT
    /\ ~InWindow(Millis, startTime)

\* C17: Response freshness.  Once a PID has been requested in an earlier
\* sweep, the frame a query accepts reached the controller after this
\* query's own request was sent: a frame the controller was already holding
\* when the request went out is never accepted as its answer (the frames
\* meant are well-formed answers for the PID).
C17_Freshness ==
    [][(ReadsFrame /\ pc' = "ret" /\ FrameMatches(rx, CurPid) /\ sweeps >= 2)
          => rxFresh]_vars

\* C18: No lost in-window response.  A query does not return Timeout while
\* the head of the receive buffer is a matching frame that arrived after the
\* request, less than 100 ms after the query's recorded start.
C18_NoLostResponse ==
    (pc = "ret" /\ ~ok) => ~(rxFresh /\ FrameMatches(rx, CurPid))

\* C16: Timeouts never fatal, retried only by the next sweep.  Under any
\* behaviour of the bus: a sweep that has started reaches the end of its
\* fifth query and the program is idle again; no PID is requested twice in
\* one sweep; a PID whose query timed out is requested again later (by a
\* following sweep); and every PID is requested infinitely often.
C16_NeverFatal ==
    /\ [](\A j, k \in 1..Len(txLog) : j < k => txLog[j] /= txLog[k])
    /\ [](Sweeping => <>(pc = "rest" /\ Len(reported) = Len(PidOrder)))
    /\ \A i \in 1..5 :
          /\ [](  (pc = "ret" /\ ~ok /\ idx = i)
               => <>(pc = "enter" /\ idx = i /\ Len(txLog) = i))
          /\ []<>(pc = "enter" /\ idx = i)

C16_Witness ==
    /\ pc = "enter" /\ idx = 1
    /\ sweeps = 2
    /\ lastFailed

====
